---- MODULE Spec2Model ----
(***************************************************************************)
(* Model of migrate_zone.py: the sequential migration of a list of zones   *)
(* from the source provider (Dynect) to the destination provider (OCI).    *)
(*                                                                         *)
(* One action per external call of the script (an HTTP call at the         *)
(* destination, a lookup or a transfer at the source) together with the    *)
(* branching that follows it in the code.  The answers of the two          *)
(* providers are the inputs: every action draws them with \E.              *)
(*                                                                         *)
(* The destination is modelled as a store of zones and TSIG keys indexed   *)
(* by name, each with a lifecycle state.  A list call that answers 200     *)
(* reports the store truthfully, a create call that answers 201 adds the   *)
(* resource in state CREATING, and names are unique in a compartment (a    *)
(* create for a name that exists is never answered 201).  Zone names are   *)
(* compared at the destination as DNS names (a trailing dot is not part    *)
(* of the identity), since createZoneFromZoneFile names the zone after     *)
(* the $ORIGIN line while the lookup passes the name as the user gave it.  *)
(***************************************************************************)
EXTENDS Integers, Sequences, FiniteSets, TLC

\* ------------------------------------------------------------------ bounds
MaxZones == 2
\* Polls for which the destination keeps a created resource in CREATING,
\* in the batch specification.
MaxCreating == 2

\* --------------------------------------------------------------- constants
MAX_POLL_ATTEMPTS == 100
HTTP_OK == 200
HTTP_CREATED == 201
\* The statuses the destination answers with: the two the code tests for and
\* one that is neither.
StatusCodes == {HTTP_OK, HTTP_CREATED, 500}

\* Zone names are sequences of characters; "." is the only character the
\* code inspects (str.endswith(".")).
ZoneNameSet == { <<"a">>, <<"a", ".">>, <<"b">> }
KeyNames == {"k1", "k2"}
NoKeyName == ""
MasterLists == { <<"m1">>, <<"m1", "m2">>, <<"m2", "m1">> }
LifecycleStates == {"CREATING", "ACTIVE", "FAILED"}
None == <<"None">>

\* ------------------------------------------------------------ pure helpers
\* str.endswith(".")
EndsWithDot(name) == Len(name) > 0 /\ name[Len(name)] = "."

\* A dot appended without the test of line 402.
ZoneNameWithDot_Always(name) == name \o <<".">>

\* zone_name_with_dot, lines 401-403
ZoneNameWithDot(name) == IF ~EndsWithDot(name) THEN name \o <<".">> ELSE name

\* f'$ORIGIN {zone_name_with_dot}\n{zonefile}', line 412
ZoneFile(name, records) ==
    <<"$ORIGIN", " ">> \o ZoneNameWithDot(name) \o <<"\n">> \o records

\* Identity of a zone at the destination: the DNS name, without the root dot.
Canon(name) == IF EndsWithDot(name) THEN SubSeq(name, 1, Len(name) - 1) ELSE name

CanonNames == { Canon(n) : n \in ZoneNameSet }

\* Identifier the destination assigns to a resource.
ZoneId(name) == <<"zone", Canon(name)>>
KeyId(k) == <<"tsigkey", k>>

\* What a resource in state s may report when it is next observed.
Successors(s) == IF s = "CREATING" THEN LifecycleStates ELSE {s}

\* The same during a poll loop that has seen CREATING n times, against a
\* destination that keeps a resource in CREATING for at most slow polls.
CreatingSeen(log) == Cardinality({ i \in DOMAIN log : log[i] = "CREATING" })

PollSuccessors(s, n, slow) ==
    IF n < slow THEN Successors(s) ELSE Successors(s) \ {"CREATING"}

\* The transferred records of a zone (opaque text).
RecordSets == { <<"@ IN SOA">> }

SeqsUpTo(S, n) == UNION { [1..k -> S] : k \in 0..n }

\* ---------------------------------------------------------------- state
VARIABLES
    zone_names,       \* the list read from --zone_name / --zone_names_file
    ignore_failures,  \* args.ignore_failures
    idx,              \* position of the for loop of migrate_zones
    pc,               \* position inside create_zone / migrate_zones
    tsig_key_name,    \* dynect_secondary_zone.tsig_key_name
    masters,          \* dynect_secondary_zone._masters
    tsig_key_ocid,    \* local of create_zone
    zonefile,         \* local of create_zone (primary path)
    created_ocid,     \* response.json()["id"] of the last create call
    poll_attempts,    \* local of the running poll function
    dest_zones,       \* destination: canonical zone name -> lifecycle state
    dest_keys,        \* destination: key name -> lifecycle state
    err,              \* the exception the current create_zone raised, or "none"
    exit_state,       \* "running", "ok" (script ran to its end), "error"
    slowness,         \* destination: polls a created resource may stay CREATING
    \* history of the current zone's attempt
    calls,            \* the calls other than getLifecycleState, in order
    polled,           \* resource kinds polled
    poll_log,         \* answers of the current (or last) poll loop
    poll_sleeps,      \* time.sleep(5) calls of the current (or last) poll loop
    poll_result,      \* how the current (or last) poll loop ended, or "running"
    request,          \* the last request sent to the destination
    response,         \* the destination's answer to it
    lookup_found,     \* the zone lookup answered 200 with a match
    zone_existed,     \* a create call was sent while the zone existed
    key_active_obs,   \* ids of keys observed ACTIVE
    key_was_active,   \* the key was ACTIVE when its resolution began
    \* history of the batch
    attempts,         \* indexes of zone_names passed to create_zone, in order
    results,          \* outcome of each attempt, in order
    resolves,         \* key name -> calls of get_or_create_tsig_key
    needers,          \* key name -> zone attempts whose source zone names it
    \* the two poll functions side by side, fed the same answers
    twin,             \* [key, zone]: poll_attempts, sleeps and end of each
    \* the script run once more
    run               \* 1: first run of the script, 2: second run

locals == <<tsig_key_name, masters, tsig_key_ocid, zonefile, created_ocid, poll_attempts>>
dest == <<dest_zones, dest_keys>>
zonehist == <<calls, polled, poll_log, poll_sleeps, poll_result, request, response,
              lookup_found,
              zone_existed, key_active_obs, key_was_active>>
batchhist == <<attempts, results, resolves, needers>>
fixed == <<zone_names, ignore_failures, slowness, twin, run>>
vars == <<fixed, idx, pc, locals, dest, err, exit_state, zonehist, batchhist>>

NoRequest == [op |-> "none"]
NoResponse == [status |-> 0, state |-> "-"]

\* An answer: its status and, when the code reads it, what its body tells
\* of the resource ("-" otherwise).
Answer(status, state) == [status |-> status, state |-> state]

zone_name == zone_names[idx]

\* A poll function at its entry (lines 176 and 207).
PollStart == [poll_attempts |-> 0, sleeps |-> 0, result |-> "running"]

\* The state when migrate_zones is called, but for the list of names and the
\* destination's slowness.
InitRest ==
    /\ ignore_failures \in BOOLEAN
    /\ idx = 1
    /\ pc = "loop"
    /\ tsig_key_name = NoKeyName
    /\ masters = <<>>
    /\ tsig_key_ocid = None
    /\ zonefile = <<>>
    /\ created_ocid = None
    /\ poll_attempts = 0
    /\ dest_zones \in [CanonNames -> {"NONE", "ACTIVE"}]
    /\ dest_keys \in [KeyNames -> {"NONE", "CREATING", "ACTIVE"}]
    /\ err = "none"
    /\ exit_state = "running"
    /\ calls = <<>>
    /\ polled = {}
    /\ poll_log = <<>>
    /\ poll_sleeps = 0
    /\ poll_result = "none"
    /\ request = NoRequest
    /\ response = NoResponse
    /\ lookup_found = FALSE
    /\ zone_existed = FALSE
    /\ key_active_obs = {}
    /\ key_was_active = FALSE
    /\ attempts = <<>>
    /\ results = <<>>
    /\ resolves = [k \in KeyNames |-> 0]
    /\ needers = [k \in KeyNames |-> 0]
    /\ twin = [key |-> PollStart, zone |-> PollStart]
    /\ run = 1

\* A batch of up to MaxZones names, against a destination that finishes a
\* creation within MaxCreating polls.
Init ==
    /\ zone_names \in SeqsUpTo(ZoneNameSet, MaxZones)
    /\ slowness = MaxCreating
    /\ InitRest

\* --zone_name: one name, against a destination that may keep a resource in
\* CREATING for as long as the script polls.
InitPoll ==
    /\ zone_names \in [1..1 -> ZoneNameSet]
    /\ slowness = MAX_POLL_ATTEMPTS
    /\ InitRest

\* ------------------------------------------------- decisions of the code
\* A lookup that never reports a match.
ZoneLookupSkips_Never(status, found) == FALSE

\* Lines 329-330: the lookup answered 200 and the list is not empty.
ZoneLookupSkips(status, found) == status = HTTP_OK /\ found

\* A found key taken in any state.
KeyUsable_AnyState(st) == TRUE

\* Line 254: a found key is usable only in state ACTIVE.
KeyUsable(st) == st = "ACTIVE"

\* A lookup whose list is taken for empty whatever it holds.
KeyLookupFound_Never(found) == FALSE

\* Line 250: the list of keys of that name is not empty.
KeyLookupFound(found) == found

\* A test that finds no zone configured with a key.
NeedsKey_Never(k) == FALSE

\* Line 362: the secondary zone is configured to use a tsig key.
NeedsKey(k) == k # NoKeyName

\* A loop condition that allows one more turn.
PollBudgetLeft_OffByOne(n) == n <= MAX_POLL_ATTEMPTS

\* Lines 178 and 209: the loop condition of the poll functions.
PollBudgetLeft(n) == n < MAX_POLL_ATTEMPTS

\* A poll that returns on CREATING as it does on ACTIVE.
PollTsigKeyOutcome_ReturnsOnCreating(status, st) ==
    IF status # HTTP_OK THEN "RemoteError"
    ELSE IF st \in {"CREATING", "ACTIVE"} THEN "return"
    ELSE "UnexpectedStateError"

\* A poll that keeps waiting on every state but ACTIVE.
PollTsigKeyOutcome_WaitsOnAny(status, st) ==
    IF status # HTTP_OK THEN "RemoteError"
    ELSE IF st = "ACTIVE" THEN "return"
    ELSE "sleep"

\* Lines 187-201: what poll_tsig_key_create does with one answer.
PollTsigKeyOutcome(status, st) ==
    IF status # HTTP_OK THEN "RemoteError"
    ELSE IF st = "CREATING" THEN "sleep"
    ELSE IF st = "ACTIVE" THEN "return"
    ELSE "UnexpectedStateError"

\* A poll that sleeps and polls again after an answer other than 200.
PollZoneOutcome_RetriesOnError(status, st) ==
    IF status # HTTP_OK THEN "sleep"
    ELSE IF st = "CREATING" THEN "sleep"
    ELSE IF st = "ACTIVE" THEN "return"
    ELSE "UnexpectedStateError"

\* A poll that takes ACTIVE for one more state to wait on.
PollZoneOutcome_WaitsOnActive(status, st) ==
    IF status # HTTP_OK THEN "RemoteError"
    ELSE IF st \in {"CREATING", "ACTIVE"} THEN "sleep"
    ELSE "UnexpectedStateError"

\* Lines 218-231: what poll_zone_create does with one answer.
PollZoneOutcome(status, st) ==
    IF status # HTTP_OK THEN "RemoteError"
    ELSE IF st = "CREATING" THEN "sleep"
    ELSE IF st = "ACTIVE" THEN "return"
    ELSE "UnexpectedStateError"

\* Lines 292 and 448: a create call succeeded.
CreateSucceeded(status) == status = HTTP_CREATED

\* An except clause that always re-raises, and one that never does.
HaltsOnFailure_Always(ignore) == TRUE
HaltsOnFailure_Never(ignore) == FALSE

\* Line 474: the except clause re-raises.
HaltsOnFailure(ignore) == ~ignore

\* What the poll log keeps of one answer.
Observation(status, st) == IF status = HTTP_OK THEN st ELSE "NON_200"

\* ------------------------------------------------------- control helpers
\* raise Exception(...) inside create_zone: control leaves create_zone and
\* reaches the except clause of migrate_zones.
Raise(kind) ==
    /\ pc' = "raised"
    /\ err' = kind
    /\ results' = Append(results, "Failed")

\* return from create_zone
Return(outcome) ==
    /\ pc' = "returned"
    /\ err' = "none"
    /\ results' = Append(results, outcome)

Goto(label) ==
    /\ pc' = label
    /\ UNCHANGED <<err, results>>

\* ------------------------------------------------------------- create_zone
\* Lines 317-335 (and the loop head, line 470-472): create_zone is entered
\* for the next name of the list and looks the zone up at the destination.
\* A 200 answer with a match returns; any other answer falls through to the
\* source lookup (the status test of line 329 has no else branch).
FindZone ==
    /\ pc = "loop"
    /\ idx <= Len(zone_names)
    /\ attempts' = Append(attempts, idx)
    /\ calls' = <<"findZoneByName">>
    /\ request' = [op |-> "findZoneByName", name |-> zone_name]
    /\ polled' = {}
    /\ poll_log' = <<>>
    /\ poll_sleeps' = 0
    /\ poll_result' = "none"
    /\ zone_existed' = FALSE
    /\ key_active_obs' = {}
    /\ key_was_active' = FALSE
    /\ tsig_key_name' = NoKeyName
    /\ masters' = <<>>
    /\ tsig_key_ocid' = None
    /\ zonefile' = <<>>
    /\ created_ocid' = None
    /\ poll_attempts' = 0
    /\ \E status \in StatusCodes :
          LET found == dest_zones[Canon(zone_name)] # "NONE" IN
          /\ lookup_found' = (status = HTTP_OK /\ found)
          /\ response' = Answer(status, IF status # HTTP_OK THEN "-"
                                        ELSE IF found THEN "found" ELSE "absent")
          /\ IF ZoneLookupSkips(status, found)
             THEN Return("SkippedExisting")
             ELSE /\ pc' = "describe"
                  /\ err' = "none"
                  /\ UNCHANGED results
    /\ UNCHANGED <<fixed, idx, dest, exit_state,
                   resolves, needers>>

\* Lines 337-345: Zone(zone_name) at the source, then the branch on the type.
DescribeZone ==
    /\ pc = "describe"
    /\ calls' = Append(calls, "describe")
    /\ \/ Raise("LookupError")
       \/ \E zone_type \in {"Primary", "Secondary"} :
             IF zone_type = "Secondary"
             THEN Goto("secondary_get")
             ELSE Goto("transfer")
    /\ UNCHANGED <<fixed, idx, locals, dest, exit_state,
                   polled, poll_log, poll_sleeps, poll_result, request, response,
                   lookup_found,
                   zone_existed, key_active_obs, key_was_active,
                   attempts, resolves, needers>>

\* Lines 346-362: SecondaryZone(zone_name) at the source, then the test of
\* the zone's tsig key name.
SecondaryGet ==
    /\ pc = "secondary_get"
    /\ calls' = Append(calls, "secondaryGet")
    /\ \/ /\ Raise("LookupError")
          /\ UNCHANGED <<tsig_key_name, masters, needers>>
       \/ \E k \in KeyNames \cup {NoKeyName}, ms \in MasterLists :
             /\ tsig_key_name' = k
             /\ masters' = ms
             /\ needers' = IF k # NoKeyName
                            THEN [needers EXCEPT ![k] = @ + 1]
                            ELSE needers
             /\ IF NeedsKey(k)
                THEN Goto("find_key")
                ELSE Goto("create_secondary")
    /\ UNCHANGED <<fixed, idx, tsig_key_ocid, zonefile,
                   created_ocid, poll_attempts, dest, exit_state,
                   polled, poll_log, poll_sleeps, poll_result, request, response,
                   lookup_found,
                   zone_existed, key_active_obs, key_was_active,
                   attempts, resolves>>

\* Lines 236-265 (called at line 364): get_or_create_tsig_key looks the key
\* up by name in the tsig key compartment.
FindTsigKey ==
    /\ pc = "find_key"
    /\ calls' = Append(calls, "findTsigKeyByName")
    /\ request' = [op |-> "findTsigKeyByName", name |-> tsig_key_name]
    /\ resolves' = [resolves EXCEPT ![tsig_key_name] = @ + 1]
    /\ key_was_active' = (dest_keys[tsig_key_name] = "ACTIVE")
    /\ \E status \in StatusCodes :
          IF status = HTTP_OK
          THEN IF KeyLookupFound(dest_keys[tsig_key_name] # "NONE")
               THEN \E st \in Successors(dest_keys[tsig_key_name]) :
                       /\ dest_keys' = [dest_keys EXCEPT ![tsig_key_name] = st]
                       /\ response' = Answer(status, st)
                       /\ key_active_obs' =
                             IF st = "ACTIVE"
                             THEN key_active_obs \cup {KeyId(tsig_key_name)}
                             ELSE key_active_obs
                       /\ IF ~KeyUsable(st)
                          THEN /\ Raise("InvalidStateError")
                               /\ UNCHANGED tsig_key_ocid
                          ELSE /\ tsig_key_ocid' = KeyId(tsig_key_name)
                               /\ Goto("create_secondary")
               ELSE /\ Goto("read_key")
                    /\ response' = Answer(status, "absent")
                    /\ UNCHANGED <<dest_keys, tsig_key_ocid, key_active_obs>>
          ELSE /\ Raise("RemoteError")
               /\ response' = Answer(status, "-")
               /\ UNCHANGED <<dest_keys, tsig_key_ocid, key_active_obs>>
    /\ UNCHANGED <<fixed, idx, tsig_key_name, masters,
                   zonefile, created_ocid, poll_attempts, dest_zones,
                   exit_state, polled, poll_log, poll_sleeps, poll_result,
                   lookup_found,
                   zone_existed, attempts, needers>>

\* Lines 267-280: TSIG(tsig_key_name) reads algorithm and secret at the source.
ReadTsigKey ==
    /\ pc = "read_key"
    /\ calls' = Append(calls, "readTsigKey")
    /\ \/ Raise("LookupError")
       \/ Goto("create_key")
    /\ UNCHANGED <<fixed, idx, locals, dest, exit_state,
                   polled, poll_log, poll_sleeps, poll_result, request, response,
                   lookup_found,
                   zone_existed, key_active_obs, key_was_active,
                   attempts, resolves, needers>>

\* Lines 282-305: POST of the key; on 201 the poll function is entered
\* (poll_attempts = 0, line 176).
CreateTsigKey ==
    /\ pc = "create_key"
    /\ calls' = Append(calls, "createTsigKey")
    /\ request' = [op |-> "createTsigKey", name |-> tsig_key_name]
    /\ \E status \in StatusCodes :
          /\ response' = Answer(status, "-")
          /\ IF ~CreateSucceeded(status)
             THEN /\ Raise("RemoteError")
                  /\ UNCHANGED <<dest_keys, created_ocid, tsig_key_ocid,
                                 poll_attempts, poll_log, poll_sleeps, poll_result>>
             ELSE /\ dest_keys[tsig_key_name] = "NONE"
                  /\ dest_keys' = [dest_keys EXCEPT ![tsig_key_name] = "CREATING"]
                  /\ created_ocid' = KeyId(tsig_key_name)
                  /\ tsig_key_ocid' = KeyId(tsig_key_name)
                  /\ poll_attempts' = 0
                  /\ poll_log' = <<>>
                  /\ poll_sleeps' = 0
                  /\ poll_result' = "running"
                  /\ Goto("poll_key")
    /\ UNCHANGED <<fixed, idx, tsig_key_name, masters,
                   zonefile, dest_zones, exit_state, polled, lookup_found,
                   zone_existed, key_active_obs, key_was_active,
                   attempts, resolves, needers>>

\* Lines 175-203 (and 304-314): one turn of the loop of poll_tsig_key_create,
\* or its exit by exhaustion.  A return leads back into create_zone with the
\* key's id.
PollTsigKeyCreate ==
    /\ pc = "poll_key"
    /\ IF PollBudgetLeft(poll_attempts)
       THEN \E status \in StatusCodes :
            \E st \in IF status = HTTP_OK
                      THEN PollSuccessors(dest_keys[created_ocid[2]],
                                          CreatingSeen(poll_log), slowness)
                      ELSE {dest_keys[created_ocid[2]]} :
               LET outcome == PollTsigKeyOutcome(status, st) IN
               /\ poll_attempts' = poll_attempts + 1
               /\ request' = [op |-> "getLifecycleState", kind |-> "key",
                              id |-> created_ocid]
               /\ polled' = polled \cup {"key"}
               /\ poll_log' = Append(poll_log, Observation(status, st))
               /\ response' = Answer(status, IF status = HTTP_OK THEN st ELSE "-")
               /\ dest_keys' = [dest_keys EXCEPT ![created_ocid[2]] = st]
               /\ poll_sleeps' = IF outcome = "sleep" THEN poll_sleeps + 1
                                 ELSE poll_sleeps
               /\ key_active_obs' = IF outcome = "return"
                                    THEN key_active_obs \cup {created_ocid}
                                    ELSE key_active_obs
               /\ poll_result' = CASE outcome = "sleep" -> "running"
                                   [] outcome = "return" -> "success"
                                   [] OTHER -> outcome
               /\ CASE outcome = "sleep" -> Goto("poll_key")
                    [] outcome = "return" -> Goto("create_secondary")
                    [] OTHER -> Raise(outcome)
       ELSE /\ Raise("TimeoutError")
            /\ poll_result' = "TimeoutError"
            /\ UNCHANGED <<poll_attempts, request, response, polled, poll_log, dest_keys,
                           poll_sleeps, key_active_obs>>
    /\ UNCHANGED <<fixed, idx, tsig_key_name, masters,
                   tsig_key_ocid, zonefile, created_ocid, dest_zones,
                   exit_state, calls, lookup_found, zone_existed,
                   key_was_active, attempts, resolves, needers>>

\* A payload that puts the key on the first master only.
SecondaryZoneData_KeyOnFirstOnly(name, ms, key_ocid) ==
    [name |-> name,
     zoneType |-> "SECONDARY",
     externalMasters |->
        [i \in 1..Len(ms) |-> [address |-> ms[i],
                               tsigKeyId |-> IF i = 1 THEN key_ocid ELSE None]]]

\* The structured payload of lines 370-380.
SecondaryZoneData(name, ms, key_ocid) ==
    [name |-> name,
     zoneType |-> "SECONDARY",
     externalMasters |->
        [i \in 1..Len(ms) |-> [address |-> ms[i], tsigKeyId |-> key_ocid]]]

\* The part of lines 448-459 both create calls share: a 201 answer adds the
\* zone at the destination and enters poll_zone_create (poll_attempts = 0).
ZoneCreateResponse ==
    \E status \in StatusCodes :
       /\ response' = Answer(status, "-")
       /\ IF ~CreateSucceeded(status)
          THEN /\ Raise("RemoteError")
               /\ UNCHANGED <<dest_zones, created_ocid, poll_attempts, poll_log,
                              poll_sleeps, poll_result>>
          ELSE /\ dest_zones[Canon(zone_name)] = "NONE"
               /\ dest_zones' = [dest_zones EXCEPT ![Canon(zone_name)] = "CREATING"]
               /\ created_ocid' = ZoneId(zone_name)
               /\ poll_attempts' = 0
               /\ poll_log' = <<>>
               /\ poll_sleeps' = 0
               /\ poll_result' = "running"
               /\ Goto("poll_zone")

\* Lines 370-390 and 448-459: POST of the secondary zone.  The locals read
\* from the source are not used after this call.
CreateSecondaryZone ==
    /\ pc = "create_secondary"
    /\ calls' = Append(calls, "createZoneStructured")
    /\ request' = [op |-> "createZoneStructured",
                   payload |-> SecondaryZoneData(zone_name, masters, tsig_key_ocid)]
    /\ zone_existed' = (dest_zones[Canon(zone_name)] # "NONE")
    /\ ZoneCreateResponse
    /\ tsig_key_name' = NoKeyName
    /\ masters' = <<>>
    /\ tsig_key_ocid' = None
    /\ UNCHANGED <<fixed, idx, zonefile, dest_keys,
                   exit_state, polled, lookup_found, key_active_obs,
                   key_was_active, attempts, resolves, needers>>

\* Lines 393-435: the zone transfer from the source and the assembly of the
\* zone file.
TransferZone ==
    /\ pc = "transfer"
    /\ calls' = Append(calls, "transfer")
    /\ \/ /\ Raise("TransferError")
          /\ UNCHANGED zonefile
       \/ \E records \in RecordSets :
             /\ zonefile' = ZoneFile(zone_name, records)
             /\ Goto("create_from_file")
    /\ UNCHANGED <<fixed, idx, tsig_key_name, masters,
                   tsig_key_ocid, created_ocid, poll_attempts, dest, exit_state,
                   polled, poll_log, poll_sleeps, poll_result, request, response,
                   lookup_found,
                   zone_existed, key_active_obs, key_was_active,
                   attempts, resolves, needers>>

\* Lines 437-459: POST of the zone file.
CreateZoneFromFile ==
    /\ pc = "create_from_file"
    /\ calls' = Append(calls, "createZoneFromFile")
    /\ request' = [op |-> "createZoneFromFile", data |-> zonefile]
    /\ zone_existed' = (dest_zones[Canon(zone_name)] # "NONE")
    /\ ZoneCreateResponse
    /\ zonefile' = <<>>
    /\ UNCHANGED <<fixed, idx, tsig_key_name, masters,
                   tsig_key_ocid, dest_keys, exit_state, polled, lookup_found,
                   key_active_obs, key_was_active, attempts, resolves, needers>>

\* Lines 206-233 (and 459-460): one turn of the loop of poll_zone_create, or
\* its exit by exhaustion.  A return ends create_zone.
PollZoneCreate ==
    /\ pc = "poll_zone"
    /\ IF PollBudgetLeft(poll_attempts)
       THEN \E status \in StatusCodes :
            \E st \in IF status = HTTP_OK
                      THEN PollSuccessors(dest_zones[created_ocid[2]],
                                          CreatingSeen(poll_log), slowness)
                      ELSE {dest_zones[created_ocid[2]]} :
               LET outcome == PollZoneOutcome(status, st) IN
               /\ poll_attempts' = poll_attempts + 1
               /\ request' = [op |-> "getLifecycleState", kind |-> "zone",
                              id |-> created_ocid]
               /\ polled' = polled \cup {"zone"}
               /\ poll_log' = Append(poll_log, Observation(status, st))
               /\ response' = Answer(status, IF status = HTTP_OK THEN st ELSE "-")
               /\ dest_zones' = [dest_zones EXCEPT ![created_ocid[2]] = st]
               /\ poll_sleeps' = IF outcome = "sleep" THEN poll_sleeps + 1
                                 ELSE poll_sleeps
               /\ poll_result' = CASE outcome = "sleep" -> "running"
                                   [] outcome = "return" -> "success"
                                   [] OTHER -> outcome
               /\ CASE outcome = "sleep" -> Goto("poll_zone")
                    [] outcome = "return" -> Return("Created")
                    [] OTHER -> Raise(outcome)
       ELSE /\ Raise("TimeoutError")
            /\ poll_result' = "TimeoutError"
            /\ UNCHANGED <<poll_attempts, request, response, polled, poll_log, dest_zones,
                           poll_sleeps>>
    /\ UNCHANGED <<fixed, idx, tsig_key_name, masters,
                   tsig_key_ocid, zonefile, created_ocid, dest_keys,
                   exit_state, calls, lookup_found, zone_existed,
                   key_active_obs, key_was_active, attempts, resolves, needers>>

\* ----------------------------------------------------------- migrate_zones
\* The loop leaves an attempt behind: the locals of create_zone are gone and
\* the history of the attempt is closed.
LeaveAttempt ==
    /\ tsig_key_name' = NoKeyName
    /\ masters' = <<>>
    /\ tsig_key_ocid' = None
    /\ zonefile' = <<>>
    /\ created_ocid' = None
    /\ poll_attempts' = 0
    /\ err' = "none"
    /\ calls' = <<>>
    /\ polled' = {}
    /\ poll_log' = <<>>
    /\ poll_sleeps' = 0
    /\ poll_result' = "none"
    /\ request' = NoRequest
    /\ response' = NoResponse
    /\ lookup_found' = FALSE
    /\ zone_existed' = FALSE
    /\ key_active_obs' = {}
    /\ key_was_active' = FALSE

\* Line 470: create_zone returned, the loop takes the next name.
NextZone ==
    /\ pc = "returned"
    /\ idx' = idx + 1
    /\ pc' = "loop"
    /\ LeaveAttempt
    /\ UNCHANGED <<fixed, dest, exit_state, batchhist>>

\* Lines 473-477: the except clause.
HandleFailure ==
    /\ pc = "raised"
    /\ IF HaltsOnFailure(ignore_failures)
       THEN /\ pc' = "halted"
            /\ exit_state' = "error"
            /\ UNCHANGED <<idx, locals, err, zonehist>>
       ELSE /\ pc' = "loop"
            /\ idx' = idx + 1
            /\ LeaveAttempt
            /\ UNCHANGED exit_state
    /\ UNCHANGED <<fixed, dest, batchhist>>

\* Lines 470 and 480: the list is exhausted, the script ends.
Finish ==
    /\ pc = "loop"
    /\ idx > Len(zone_names)
    /\ pc' = "done"
    /\ exit_state' = "ok"
    /\ UNCHANGED <<fixed, idx, locals, dest, err,
                   zonehist, batchhist>>

Next ==
    \/ FindZone
    \/ DescribeZone
    \/ SecondaryGet
    \/ FindTsigKey
    \/ ReadTsigKey
    \/ CreateTsigKey
    \/ PollTsigKeyCreate
    \/ CreateSecondaryZone
    \/ TransferZone
    \/ CreateZoneFromFile
    \/ PollZoneCreate
    \/ NextZone
    \/ HandleFailure
    \/ Finish

Spec == Init /\ [][Next]_vars

SpecPoll == InitPoll /\ [][Next]_vars

\* ------------------------------------ the two poll functions, side by side
\* How an outcome of one answer ends (or does not end) a poll function.
PollEnd(outcome) ==
    CASE outcome = "sleep" -> "running"
      [] outcome = "return" -> "success"
      [] OTHER -> outcome

\* Lines 175-203: poll_tsig_key_create takes one turn of its loop on the
\* answer (status, st), or leaves the loop exhausted.
TwinKeyTurn(p, status, st) ==
    IF p.result # "running" THEN p
    ELSE IF ~PollBudgetLeft(p.poll_attempts)
    THEN [p EXCEPT !.result = "TimeoutError"]
    ELSE LET outcome == PollTsigKeyOutcome(status, st) IN
         [poll_attempts |-> p.poll_attempts + 1,
          sleeps |-> IF outcome = "sleep" THEN p.sleeps + 1 ELSE p.sleeps,
          result |-> PollEnd(outcome)]

\* Lines 206-233: poll_zone_create takes one turn of its loop on the answer
\* (status, st), or leaves the loop exhausted.
TwinZoneTurn(p, status, st) ==
    IF p.result # "running" THEN p
    ELSE IF ~PollBudgetLeft(p.poll_attempts)
    THEN [p EXCEPT !.result = "TimeoutError"]
    ELSE LET outcome == PollZoneOutcome(status, st) IN
         [poll_attempts |-> p.poll_attempts + 1,
          sleeps |-> IF outcome = "sleep" THEN p.sleeps + 1 ELSE p.sleeps,
          result |-> PollEnd(outcome)]

\* The destination gives one answer, any status and any lifecycle state, and
\* both functions take it.
TwinStep ==
    /\ twin.key.result = "running" \/ twin.zone.result = "running"
    /\ \E status \in StatusCodes, st \in LifecycleStates :
          twin' = [key |-> TwinKeyTurn(twin.key, status, st),
                   zone |-> TwinZoneTurn(twin.zone, status, st)]
    /\ UNCHANGED <<zone_names, ignore_failures, slowness, run, idx, pc, locals,
                   dest, err, exit_state, zonehist, batchhist>>

SpecTwin == InitPoll /\ [][TwinStep]_vars

\* ------------------------------------------------- the script run again
\* Lines 463-480: the script, having run to its end with no zone failed, is
\* started once more with the same arguments against the destination as the
\* first run left it.
Rerun ==
    /\ run = 1
    /\ pc = "done"
    /\ \A i \in DOMAIN results : results[i] \in {"Created", "SkippedExisting"}
    /\ run' = 2
    /\ idx' = 1
    /\ pc' = "loop"
    /\ exit_state' = "running"
    /\ attempts' = <<>>
    /\ results' = <<>>
    /\ resolves' = [k \in KeyNames |-> 0]
    /\ needers' = [k \in KeyNames |-> 0]
    /\ UNCHANGED <<zone_names, ignore_failures, slowness, twin, locals, dest,
                   err, zonehist>>

NextRerun ==
    \/ Next
    \/ Rerun

SpecRerun == Init /\ [][NextRerun]_vars

TypeOK ==
    /\ idx \in 1..(Len(zone_names) + 1)
    /\ poll_attempts \in 0..MAX_POLL_ATTEMPTS
    /\ Len(results) <= Len(attempts)

\* ================================================================ claims
Range(s) == { s[i] : i \in DOMAIN s }
Last(s) == s[Len(s)]
AllCreating(log) == \A i \in DOMAIN log : log[i] = "CREATING"
Polling == pc \in {"poll_key", "poll_zone"}
ZoneCreateCalls == {"createZoneStructured", "createZoneFromFile"}
InOrder(as) == \A i \in DOMAIN as : as[i] = i

\* C1: a zone whose existence lookup answered with a match ends as
\* SkippedExisting, and its attempt holds no call but the lookup: no source
\* call, no creation call, no lifecycle poll.
C1_SkipExisting ==
    lookup_found =>
        /\ calls = <<"findZoneByName">>
        /\ polled = {}
        /\ poll_log = <<>>
        /\ pc \in {"returned", "loop", "done"}
        /\ err = "none"
        /\ Len(results) = Len(attempts)
        /\ Last(results) = "SkippedExisting"

C1_Witness ==
    /\ lookup_found
    /\ pc = "returned"
    /\ Last(results) = "SkippedExisting"

\* C2: no zone-creation call is sent for a name whose zone exists in the
\* target compartment at the time of the call.
C2_NeverCreateExisting == ~zone_existed

\* C3: a structured creation call that carries a key id carries the id of a
\* key that is ACTIVE at the destination and was observed ACTIVE in this
\* zone's attempt; and a zone-creation call that follows a key resolution
\* follows one that observed the key ACTIVE (a failed resolution is followed
\* by no creation call).
C3_KeyActiveBeforeCreate ==
    /\ request.op = "createZoneStructured" =>
          \A i \in DOMAIN request.payload.externalMasters :
             LET id == request.payload.externalMasters[i].tsigKeyId IN
             id # None =>
                /\ id \in key_active_obs
                /\ dest_keys[id[2]] = "ACTIVE"
    /\ ("findTsigKeyByName" \in Range(calls)
           /\ Range(calls) \cap ZoneCreateCalls # {}) =>
          /\ key_active_obs # {}
          /\ "createZoneFromFile" \notin Range(calls)
    /\ (err # "none" /\ Last(calls) \in {"findTsigKeyByName", "readTsigKey",
                                          "createTsigKey"}) =>
          /\ pc \in {"raised", "halted", "loop", "done"}
          /\ Range(calls) \cap ZoneCreateCalls = {}
          /\ "zone" \notin polled

C3_Witness ==
    /\ request.op = "createZoneStructured"
    /\ Len(request.payload.externalMasters) = 2
    /\ request.payload.externalMasters[1].tsigKeyId # None
    /\ "key" \in polled
    /\ Len(poll_log) > 1

\* C4: with ignore_failures the zones are attempted one by one in the order
\* of the list, the run never halts on a failure, and it ends only when
\* every name of the list has been attempted once.
C4_ContinuePastFailures ==
    ignore_failures =>
        /\ InOrder(attempts)
        /\ Len(attempts) <= Len(zone_names)
        /\ pc # "halted"
        /\ exit_state # "error"
        /\ (ENABLED Next) \/ pc = "done"
        /\ pc = "done" => /\ Len(attempts) = Len(zone_names)
                          /\ Len(results) = Len(zone_names)

C4_Witness ==
    /\ ignore_failures
    /\ pc = "done"
    /\ Len(zone_names) = MaxZones
    /\ results[1] = "Failed"
    /\ results[MaxZones] = "Created"

\* C5: without ignore_failures the first failing zone is the last one
\* attempted: the run halts there with an error, nothing follows, and the
\* zones before it were attempted in the order of the list.
C5_FailFast ==
    ~ignore_failures =>
        /\ InOrder(attempts)
        /\ \A i \in DOMAIN results :
              results[i] = "Failed" =>
                 /\ i = Len(results)
                 /\ Len(attempts) = i
                 /\ idx = i
                 /\ pc \in {"raised", "halted"}
        /\ pc = "raised" => ENABLED HandleFailure
        /\ pc = "halted" => /\ exit_state = "error"
                            /\ err # "none"
                            /\ Last(results) = "Failed"
                            /\ ~ENABLED Next
        /\ pc = "done" => "Failed" \notin Range(results)

C5_Witness ==
    /\ ~ignore_failures
    /\ pc = "halted"
    /\ Len(attempts) < Len(zone_names)
    /\ Len(calls) > 1

\* C6: a poll loop that was answered CREATING k times and then ACTIVE, with
\* k < MAX_POLL_ATTEMPTS, has succeeded with exactly k+1 calls; ACTIVE is
\* never followed by another poll.
C6_SucceedsAtFirstActive ==
    /\ \A i \in DOMAIN poll_log : poll_log[i] = "ACTIVE" => i = Len(poll_log)
    /\ (/\ poll_log # <<>>
        /\ Len(poll_log) <= MAX_POLL_ATTEMPTS
        /\ Last(poll_log) = "ACTIVE"
        /\ AllCreating(SubSeq(poll_log, 1, Len(poll_log) - 1))) =>
          /\ poll_result = "success"
          /\ poll_attempts = Len(poll_log)
          /\ poll_sleeps = Len(poll_log) - 1
          /\ ~Polling
    /\ poll_result = "success" => /\ poll_log # <<>>
                                  /\ Last(poll_log) = "ACTIVE"

C6_Witness ==
    /\ poll_result = "success"
    /\ Len(poll_log) = MAX_POLL_ATTEMPTS
    /\ polled = {"key", "zone"}

\* C7: a poll loop makes at most MAX_POLL_ATTEMPTS calls; one that was
\* answered CREATING MAX_POLL_ATTEMPTS times makes no further call and
\* fails with a timeout; and a timeout happens in no other case.
C7_State ==
    /\ Len(poll_log) <= MAX_POLL_ATTEMPTS
    /\ poll_attempts = Len(poll_log)
    /\ poll_result = "TimeoutError" =>
          /\ Len(poll_log) = MAX_POLL_ATTEMPTS
          /\ AllCreating(poll_log)
          /\ err = "TimeoutError"
          /\ ~Polling
    /\ (Len(poll_log) = MAX_POLL_ATTEMPTS /\ AllCreating(poll_log)) =>
          /\ poll_result \in {"running", "TimeoutError"}
          /\ poll_result = "running" => Polling

C7_TimeoutAfterMaxAttempts ==
    [][ /\ C7_State'
        /\ (/\ Len(poll_log) = MAX_POLL_ATTEMPTS
            /\ AllCreating(poll_log)
            /\ poll_result = "running") =>
              /\ poll_result' = "TimeoutError"
              /\ poll_log' = poll_log
              /\ pc' = "raised" ]_vars

C7_Witness ==
    /\ poll_result = "TimeoutError"
    /\ Len(poll_log) = MAX_POLL_ATTEMPTS
    /\ Last(results) = "Failed"

\* C8: an answer that is neither CREATING nor ACTIVE is the last answer of
\* its poll loop, and the loop failed on it with an unexpected-state error.
C8_FailsAtFirstOtherState ==
    /\ \A i \in DOMAIN poll_log :
          poll_log[i] \notin {"CREATING", "ACTIVE", "NON_200"} =>
             /\ i = Len(poll_log)
             /\ poll_result = "UnexpectedStateError"
             /\ err = "UnexpectedStateError"
             /\ ~Polling
             /\ Last(results) = "Failed"
    /\ poll_result = "UnexpectedStateError" =>
          /\ poll_log # <<>>
          /\ Last(poll_log) \notin {"CREATING", "ACTIVE", "NON_200"}

C8_Witness ==
    /\ poll_result = "UnexpectedStateError"
    /\ Len(poll_log) > 2
    /\ polled = {"key"}

C10_NoCreationCost ==
    key_was_active =>
        /\ Range(calls) \cap {"readTsigKey", "createTsigKey"} = {}
        /\ "key" \notin polled
        /\ pc = "create_secondary" =>
              /\ tsig_key_ocid = KeyId(tsig_key_name)
              /\ dest_keys[tsig_key_name] = "ACTIVE"

ResolutionFailed ==
    /\ err # "none"
    /\ Last(calls) \in {"findTsigKeyByName", "readTsigKey", "createTsigKey"}

\* C10 as stated: every resolution of a name whose key is ACTIVE at the
\* destination returns the id of the existing key, at no creation cost.
C10_AlwaysReturnsExisting ==
    /\ C10_NoCreationCost
    /\ key_was_active => ~ResolutionFailed

\* C10 as amended: every resolution of a name whose key is ACTIVE at the
\* destination is at no creation cost and returns the id of the existing
\* key, unless its key lookup is answered with a status other than 200: then
\* it fails with a remote error.
C10_ReturnsExistingUnlessLookupFails ==
    /\ C10_NoCreationCost
    /\ (key_was_active /\ ResolutionFailed) =>
          /\ err = "RemoteError"
          /\ request.op = "findTsigKeyByName"
          /\ Last(calls) = "findTsigKeyByName"

C10_Witness ==
    /\ key_was_active
    /\ Len(attempts) = 2
    /\ results[1] = "Created"
    /\ pc = "create_secondary"
    /\ resolves[tsig_key_name] = 2
    /\ tsig_key_ocid = KeyId(tsig_key_name)

\* C11: a key lookup answered 200 with a key that is not ACTIVE ends the
\* attempt with an invalid-state error: the source is not asked for the key,
\* no createTsigKey is sent, nothing is polled and no zone is created.
C11_FoundNotActiveFails ==
    (/\ request.op = "findTsigKeyByName"
     /\ response.status = HTTP_OK
     /\ response.state \notin {"absent", "ACTIVE"}) =>
        /\ err = "InvalidStateError"
        /\ pc \in {"raised", "halted"}
        /\ Last(results) = "Failed"
        /\ Len(results) = Len(attempts)
        /\ Last(calls) = "findTsigKeyByName"
        /\ Range(calls) \cap {"readTsigKey", "createTsigKey"} = {}
        /\ Range(calls) \cap ZoneCreateCalls = {}
        /\ polled = {}
        /\ tsig_key_ocid = None

C11_Witness ==
    /\ request.op = "findTsigKeyByName"
    /\ response = Answer(HTTP_OK, "CREATING")
    /\ pc = "raised"
    /\ dest_zones[Canon(zone_name)] = "NONE"

\* C12: a destination call answered with a status outside 2xx ends the
\* attempt with a remote error, and no further call follows it.
Is2xx(status) == status \in 200..299

C12_Non2xxFails ==
    (request.op # "none" /\ ~Is2xx(response.status)) =>
        /\ err = "RemoteError"
        /\ pc \in {"raised", "halted"}

\* The part C13 as stated and C13 as amended share: without ignore_failures
\* a failing zone ends the run in the failure exit state; with it the run is
\* never halted.
C13_HaltPolicy ==
    /\ (~ignore_failures /\ "Failed" \in Range(results)) =>
          /\ pc \in {"raised", "halted"}
          /\ pc = "raised" => ENABLED HandleFailure
    /\ pc = "halted" => exit_state = "error" /\ ~ignore_failures
    /\ ignore_failures => pc # "halted" /\ exit_state # "error"

C14_OriginLine ==
    request.op = "createZoneFromFile" =>
        /\ ~EndsWithDot(Canon(zone_name))
        /\ \E records \in RecordSets :
              request.data = <<"$ORIGIN", " ">> \o Canon(zone_name) \o <<".">>
                                \o <<"\n">> \o records

C14_Witness ==
    /\ request.op = "createZoneFromFile"
    /\ EndsWithDot(zone_name)
    /\ response.status = HTTP_CREATED
    /\ request.data = <<"$ORIGIN", " ", "a", ".", "\n", "@ IN SOA">>

\* The state, at the destination, of the resource of the current (or last)
\* poll loop.
PolledState ==
    IF created_ocid = None THEN "NONE"
    ELSE IF created_ocid[1] = "zone" THEN dest_zones[created_ocid[2]]
    ELSE dest_keys[created_ocid[2]]

PollEnded == poll_result \notin {"none", "running"}

\* The part C15 as stated and C15 as amended share: a poll loop returns
\* normally only right after an answer of ACTIVE.
C15_SuccessOnlyOnActive ==
    poll_result = "success" =>
        /\ Last(poll_log) = "ACTIVE"
        /\ PolledState = "ACTIVE"

\* C15 as stated: a poll loop has not ended, normally or with an error,
\* while its resource is CREATING and fewer than MAX_POLL_ATTEMPTS polls
\* were made.
C15_NeverEndsWhileCreating ==
    /\ C15_SuccessOnlyOnActive
    /\ (PollEnded /\ PolledState = "CREATING") =>
          Len(poll_log) >= MAX_POLL_ATTEMPTS

\* C15 as amended: a poll loop that has ended while its resource is CREATING
\* and fewer than MAX_POLL_ATTEMPTS polls were made has ended with a remote
\* error, on a poll answered with a status other than 200.
C15_EndsEarlyOnlyOnRemoteError ==
    /\ C15_SuccessOnlyOnActive
    /\ (PollEnded /\ PolledState = "CREATING"
           /\ Len(poll_log) < MAX_POLL_ATTEMPTS) =>
          /\ poll_result = "RemoteError"
          /\ Last(poll_log) = "NON_200"
          /\ response.status # HTTP_OK
    /\ (Polling /\ PollBudgetLeft(poll_attempts)) =>
          /\ poll_result = "running"
          /\ PolledState = "CREATING"

C15_Witness ==
    /\ poll_result = "RemoteError"
    /\ PolledState = "CREATING"
    /\ Len(poll_log) = 3
    /\ "zone" \in polled

\* The order of the calls of one attempt, the start of the zone poll and the
\* report of Created.
C16_Order ==
    /\ "createZoneFromFile" \in Range(calls) =>
          calls = <<"findZoneByName", "describe", "transfer", "createZoneFromFile">>
    /\ "createZoneStructured" \in Range(calls) =>
          /\ SubSeq(calls, 1, 3) = <<"findZoneByName", "describe", "secondaryGet">>
          /\ Last(calls) = "createZoneStructured"
          /\ "findTsigKeyByName" \in Range(calls) => key_active_obs # {}
    /\ (pc = "poll_zone" \/ "zone" \in polled) =>
          /\ Last(calls) \in ZoneCreateCalls
          /\ created_ocid = ZoneId(zone_name)
          /\ request.op = "getLifecycleState" => request.id = created_ocid
    /\ (pc = "returned" /\ Last(results) = "Created") =>
          /\ "zone" \in polled
          /\ poll_result = "success"
          /\ Last(poll_log) = "ACTIVE"
          /\ dest_zones[Canon(zone_name)] = "ACTIVE"
    /\ \A i \in DOMAIN results :
          results[i] \in {"SkippedExisting", "Created", "Failed"}
    /\ Len(results) <= Len(attempts)
    /\ Len(attempts) <= Len(results) + 1
    /\ pc \in {"returned", "raised", "halted", "loop", "done"} =>
          Len(results) = Len(attempts)

\* The attempt goes on from the existence check to the source only when the
\* check succeeded and found no zone.
C16_CheckedFirst ==
    (pc = "loop" /\ pc' = "describe") =>
        response' = Answer(HTTP_OK, "absent")

\* C16: the creation call comes only after a successful existence check, a
\* successful describe and a successful transfer or key resolution; the zone
\* poll starts only after a successful create answer and uses its id; Created
\* is reported only after a poll saw ACTIVE; every attempt ends in exactly one
\* of SkippedExisting, Created, Failed.
C16_StateMachine == []C16_Order /\ [][C16_CheckedFirst]_vars

\* C17: the structured payload sent for a secondary zone lists the masters in
\* the order the source gave them and gives every master the same tsigKeyId:
\* the id key resolution returned when the zone has a TSIG key name, null
\* when it has none, and then no key lookup, creation or poll was issued.
C17_PayloadStep ==
    (pc = "create_secondary" /\ request'.op = "createZoneStructured") =>
        LET ems == request'.payload.externalMasters
            key == IF tsig_key_name = NoKeyName THEN None
                   ELSE KeyId(tsig_key_name)
        IN  /\ Len(ems) = Len(masters)
            /\ \A i \in DOMAIN ems : /\ ems[i].address = masters[i]
                                     /\ ems[i].tsigKeyId = key
            /\ tsig_key_name # NoKeyName =>
                  /\ key \in key_active_obs
                  /\ "findTsigKeyByName" \in Range(calls)
            /\ tsig_key_name = NoKeyName =>
                  /\ Range(calls') \cap {"findTsigKeyByName", "readTsigKey",
                                         "createTsigKey"} = {}
                  /\ "key" \notin polled'

C17_SameKeyOnAllMasters == [][C17_PayloadStep]_vars

C17_Witness ==
    /\ request.op = "createZoneStructured"
    /\ response.status = HTTP_CREATED
    /\ request.payload.externalMasters =
          <<[address |-> "m2", tsigKeyId |-> KeyId("k2")],
            [address |-> "m1", tsigKeyId |-> KeyId("k2")]>>
    /\ "key" \in polled

\* C18: fed the same sequence of answers, poll_tsig_key_create and
\* poll_zone_create have made the same number of polls, slept after the same
\* answers and ended (or not) in the same way.
C18_SamePollSemantics == twin.key = twin.zone

C18_Witness ==
    /\ twin.key.result = "UnexpectedStateError"
    /\ twin.zone.poll_attempts = 3
    /\ twin.zone.sleeps = 2

\* How often the current attempt issued one of the calls ops.
Issued(ops) == Cardinality({ i \in DOMAIN calls : calls[i] \in ops })

\* C19: within one attempt the zone existence lookup, the key lookup, the
\* key creation and the zone creation are each issued at most once; a poll
\* loop makes at most MAX_POLL_ATTEMPTS polls, and a poll answered with a
\* status other than 200 is the last of its loop.
C19_NoRetry ==
    /\ Issued({"findZoneByName"}) <= 1
    /\ Issued({"findTsigKeyByName"}) <= 1
    /\ Issued({"createTsigKey"}) <= 1
    /\ Issued(ZoneCreateCalls) <= 1
    /\ Len(poll_log) <= MAX_POLL_ATTEMPTS
    /\ \A i \in DOMAIN poll_log :
          poll_log[i] = "NON_200" =>
             /\ i = Len(poll_log)
             /\ poll_result = "RemoteError"
             /\ ~Polling

C19_Witness ==
    /\ polled = {"key"}
    /\ poll_result = "RemoteError"
    /\ Len(poll_log) = 2
    /\ pc = "raised"
    /\ Issued({"createTsigKey"}) = 1

\* The names of the zones and of the keys the destination holds.
DestNames ==
    <<{ n \in DOMAIN dest_zones : dest_zones[n] # "NONE" },
      { k \in DOMAIN dest_keys : dest_keys[k] # "NONE" }>>

\* In the second run no attempt issues a zone creation, a key creation or a
\* poll, and every attempt ends as SkippedExisting.
C20_SecondRunSkips ==
    run = 2 =>
        /\ Range(calls) \cap (ZoneCreateCalls \cup {"createTsigKey"}) = {}
        /\ polled = {}
        /\ pc \notin {"poll_key", "poll_zone"}
        /\ \A i \in DOMAIN results : results[i] = "SkippedExisting"

\* No step of the second run changes what the destination holds.
C20_SecondRunKeepsDest == run = 2 => DestNames' = DestNames

\* C20: a second run over the same list, after a run in which every zone
\* ended Created or SkippedExisting, issues no zone creation, no key creation
\* and no poll, skips every zone and leaves the destination's zones and keys
\* as they were.
C20_RerunIdempotent == []C20_SecondRunSkips /\ [][C20_SecondRunKeepsDest]_vars

====
